---- MODULE Spec2Model ----
(***************************************************************************)
(* EduWeave study copilot: the chunker (text_processing.py), the in-memory *)
(* vector store (vector_store.py), the RAG answer flow (rag.py) and the    *)
(* summary / MCQ entry points (generation.py).                             *)
(*                                                                         *)
(* Strings are sequences of one-character strings, so that the regular     *)
(* expressions, strip(), rfind() and slicing of the source are computed    *)
(* character by character.  Python indices are 0-based; the operators      *)
(* below keep the 0-based values of the source (start, end, idx) and add 1 *)
(* only where a TLA+ sequence is indexed.                                  *)
(***************************************************************************)
EXTENDS Integers, Sequences, FiniteSets, TLC

VARIABLES
    \* ---- chunk_text (text_processing.py) ----
    c_text,        \* argument text
    chunk_size,    \* argument, rebound by the clamp of line 26
    chunk_overlap, \* argument, rebound by the clamp of line 27
    normalized,    \* local
    start,         \* local cursor
    end,           \* local, window edge of the last iteration
    adjusted_end,  \* local, cut position of the last iteration
    chunks,        \* local, the list being built
    spans,         \* history: start and adjusted_end of every iteration so far
    cpc,           \* position in chunk_text: "call", "loop", "done"
    \* ---- VectorStoreManager (vector_store.py) ----
    text_chunks,   \* field
    metadatas,     \* field
    full_text,     \* field
    index,         \* _index: None, or the vectors added to the flat index
    dimension,     \* _dimension
    embed,         \* the embedding service: a fixed function from texts to vectors
    bld,           \* the build that is running statement by statement, if any
    built,         \* history: some build on this store has returned normally
    \* ---- the last call of an entry point: its arguments, its result or
    \*      error, and the service calls it made ----
    out,
    \* ---- answer post-processing (rag.py lines 72-100) ----
    raw_answer,    \* local: the generator's output
    raw_parts,     \* the pieces raw_answer was put together from
    answer,        \* local: the post-processed answer
    ppc            \* "raw" before the post-processing, "done" after it

chunkVars == <<c_text, chunk_size, chunk_overlap, normalized, start, end,
               adjusted_end, chunks, spans, cpc>>

storeVars == <<text_chunks, metadatas, full_text, index, dimension>>

postVars == <<raw_answer, raw_parts, answer, ppc>>

vars == <<chunkVars, storeVars, embed, bld, built, out, postVars>>

----------------------------------------------------------------------------
(* Characters and generic string helpers *)

\* The whitespace characters of the model's alphabet (Python's \s and strip()).
WS == {" ", "\n", "\t"}

IsWS(c) == c \in WS

SetMax(S) == CHOOSE x \in S : \A y \in S : y <= x

SetMin(S) == CHOOSE x \in S : \A y \in S : x <= y

\* n copies of character c
Rep(c, n) == [i \in 1..n |-> c]

\* 1-based position of the first / last non-whitespace character, 0 if none
FirstNonWS(s) ==
    IF \A i \in 1..Len(s) : IsWS(s[i]) THEN 0
    ELSE CHOOSE i \in 1..Len(s) : ~IsWS(s[i]) /\ \A j \in 1..(i-1) : IsWS(s[j])

LastNonWS(s) ==
    IF \A i \in 1..Len(s) : IsWS(s[i]) THEN 0
    ELSE CHOOSE i \in 1..Len(s) : ~IsWS(s[i]) /\ \A j \in (i+1)..Len(s) : IsWS(s[j])

\* str.strip(): drop leading and trailing whitespace
Strip(s) ==
    IF FirstNonWS(s) = 0 THEN <<>> ELSE SubSeq(s, FirstNonWS(s), LastNonWS(s))

\* re.sub(r"\s+", " ", text or "").strip(): every run of whitespace becomes one
\* space, then leading and trailing whitespace is dropped.
NormalizeWhitespace(t) ==
    LET last == LastNonWS(t)
        idx  == [i \in 1..Len(t) |-> i]
        Keep(i) == \/ ~IsWS(t[i])
                   \/ i > 1 /\ ~IsWS(t[i-1]) /\ i < last
        kept == SelectSeq(idx, Keep)
    IN  [k \in 1..Len(kept) |-> IF IsWS(t[kept[k]]) THEN " " ELSE t[kept[k]]]

\* s[a:b] for 0 <= a, with Python's clipping of b to len(s)
Slice(s, a, b) ==
    LET hi == IF b < Len(s) THEN b ELSE Len(s)
    IN  IF a >= hi THEN <<>> ELSE SubSeq(s, a + 1, hi)

\* str.rfind(sep) for a non-empty sep: the highest 0-based index at which sep
\* occurs in s, or -1.
RFind(s, sep) ==
    LET M == {i \in 0..(Len(s) - Len(sep)) :
                 \A k \in 1..Len(sep) : s[i + k] = sep[k]}
    IN  IF M = {} THEN -1 ELSE SetMax(M)

Max2(a, b) == IF a >= b THEN a ELSE b

Min2(a, b) == IF a <= b THEN a ELSE b

----------------------------------------------------------------------------
(* chunk_text *)

MinChunkSize == 200

\* The default separators of chunk_text / ChunkConfig, in priority order.
separators == << <<"\n", "\n">>, <<"\n">>, <<".", " ">>, <<" ">>, <<>> >>

\* chunk_size = max(chunk_size, 200)
ClampSize(size) == Max2(size, MinChunkSize)

\* chunk_overlap = max(0, min(chunk_overlap, chunk_size - 1)), chunk_size clamped
ClampOverlap(overlap, size) == Max2(0, Min2(overlap, size - 1))

\* end = min(start + chunk_size, length)
WindowEnd(norm, st, size) == Min2(st + size, Len(norm))

\* A variant that searches the separators in the rest of the text
WindowToTextEnd(norm, st, en) == Slice(norm, st, Len(norm))

\* window = normalized[start:end]
Window(norm, st, en) == Slice(norm, st, en)

\* A variant with the threshold at half the chunk size
QualifiesHalf(absolute_idx, st, size) == 2 * (absolute_idx - st) >= size

\* absolute_idx - start >= chunk_size * 0.6.  For integers the float product
\* compares as 5 * (absolute_idx - start) >= 3 * chunk_size: 0.6 * n rounds
\* to the exact quotient whenever 3n/5 is an integer.
Qualifies(absolute_idx, st, size) == 5 * (absolute_idx - st) >= 3 * size

\* for sep in separators: ... the cut of one iteration (lines 38-48), trying
\* the separators from position k on.
RECURSIVE CutFrom(_, _, _, _, _)
CutFrom(window, st, en, size, k) ==
    IF k > Len(separators) THEN en
    ELSE LET sep == separators[k]
             idx == RFind(window, sep)
             absolute_idx == st + idx + Len(Strip(sep))
         IN  IF sep = <<>> THEN CutFrom(window, st, en, size, k + 1)
             ELSE IF idx = -1 THEN CutFrom(window, st, en, size, k + 1)
             ELSE IF Qualifies(absolute_idx, st, size) THEN absolute_idx
             ELSE CutFrom(window, st, en, size, k + 1)

AdjustedEnd(norm, st, size) ==
    LET en == WindowEnd(norm, st, size)
    IN  CutFrom(Window(norm, st, en), st, en, size, 1)

\* A variant that resumes one character after the cut
NextStartPastCut(adj, overlap) == adj + 1

\* start = max(adjusted_end - chunk_overlap, 0)
NextStart(adj, overlap) == Max2(adj - overlap, 0)

\* Bounds of the chunker's inputs.
MaxChunks == 6

ChunkSizes == {100, 250}

ChunkOverlaps == {-5, 0, 150, 199, 300}

\* The texts: three words of the letter a joined by two separators.
FirstLens == {0, 119, 120, 130}

MidLens == {0, 19, 100}

LastLens == {0, 19, 120}

Joints == { <<>>, <<" ">>, <<".", " ">>, <<"\n", " ">>, <<".">> }

LastJoints == { <<" ">>, <<".", " ">> }

MakeText(n1, j1, n2, j2, n3) == Rep("a", n1) \o j1 \o Rep("a", n2) \o j2 \o Rep("a", n3)

ChunkInit ==
    /\ \E n1 \in FirstLens, n2 \in MidLens, n3 \in LastLens, j1 \in Joints, j2 \in LastJoints :
          c_text = MakeText(n1, j1, n2, j2, n3)
    /\ chunk_size \in ChunkSizes
    /\ chunk_overlap \in ChunkOverlaps
    /\ normalized = <<>>
    /\ start = 0
    /\ end = 0
    /\ adjusted_end = 0
    /\ chunks = <<>>
    /\ spans = <<>>
    /\ cpc = "call"

\* Lines 22-31: normalise, return [] on an empty text, clamp, initialise.
ChunkEnter ==
    /\ cpc = "call"
    /\ normalized' = NormalizeWhitespace(c_text)
    /\ IF normalized' = <<>>
       THEN /\ cpc' = "done"
            /\ UNCHANGED <<chunk_size, chunk_overlap>>
       ELSE /\ chunk_size' = ClampSize(chunk_size)
            /\ chunk_overlap' = ClampOverlap(chunk_overlap, chunk_size')
            /\ cpc' = "loop"
    /\ UNCHANGED <<c_text, start, end, adjusted_end, chunks, spans>>
    /\ UNCHANGED <<storeVars, embed, bld, built, out, postVars>>

\* One iteration of the while loop, lines 33-59.  The loop condition
\* start < length holds whenever cpc = "loop".
ChunkIterate ==
    /\ cpc = "loop"
    /\ Len(chunks) < MaxChunks
    /\ end' = WindowEnd(normalized, start, chunk_size)
    /\ adjusted_end' = AdjustedEnd(normalized, start, chunk_size)
    /\ LET chunk == Strip(Slice(normalized, start, adjusted_end'))
       IN  chunks' = IF chunk # <<>> THEN Append(chunks, chunk) ELSE chunks
    /\ spans' = Append(spans, [start |-> start, adjusted_end |-> adjusted_end'])
    /\ IF adjusted_end' >= Len(normalized)
       THEN /\ cpc' = "done"
            /\ UNCHANGED start
       ELSE /\ start' = NextStart(adjusted_end', chunk_overlap)
            /\ cpc' = IF start' >= Len(normalized) THEN "done" ELSE "loop"
    /\ UNCHANGED <<c_text, chunk_size, chunk_overlap, normalized>>
    /\ UNCHANGED <<storeVars, embed, bld, built, out, postVars>>

----------------------------------------------------------------------------
(* VectorStoreManager *)

\* Python's None.  An optional value is None or a one-field record naming its
\* type: [int |-> n], [list |-> seq], [float |-> hundredths].
None == [none |-> TRUE]

\* Embedding vectors: L2-normalised (normalize_embeddings=True), here the
\* unit vectors of the integer plane.
Vectors == { <<1, 0>>, <<0, 1>>, <<-1, 0>> }

\* matrix.shape[1]
VectorDim == 2

\* batch_size: int = 32
BatchSize == 32

\* IndexFlatL2's metric: the squared Euclidean distance
Dist2(u, v) == (u[1] - v[1]) * (u[1] - v[1]) + (u[2] - v[2]) * (u[2] - v[2])

\* _embed_batch(texts): one call of the embedding service
EmbedBatch(f, texts) == [i \in 1..Len(texts) |-> f[texts[i]]]

\* range(0, len(texts), self.batch_size)
BatchStarts(texts) == {st \in 0..(Len(texts) - 1) : st % BatchSize = 0}

\* np.vstack of the batches' embeddings, batch by batch: row i (0-based) is
\* row i - st of the embedding of the batch texts[st : st + batch_size].
BuildMatrix(f, texts) ==
    [i \in 1..Len(texts) |->
        LET st == ((i - 1) \div BatchSize) * BatchSize
        IN  EmbedBatch(f, Slice(texts, st, st + BatchSize))[i - st]]

\* A variant of the validation that lets every list through
RejectsNoTexts(texts) == FALSE

\* if not texts: raise ValueError
RejectsTexts(texts) == texts = <<>>

\* metadatas or [{} for _ in texts]
\* The empty dictionary {}
EmptyDict == [k \in {} |-> k]

StoredMetadatas(texts, metas) ==
    IF metas = None THEN [i \in 1..Len(texts) |-> EmptyDict]
    ELSE IF metas.list = <<>> THEN [i \in 1..Len(texts) |-> EmptyDict]
    ELSE metas.list

\* " ".join(texts)
RECURSIVE JoinWith(_, _)
JoinWith(sep, parts) ==
    IF parts = <<>> THEN <<>>
    ELSE IF Len(parts) = 1 THEN parts[1]
    ELSE parts[1] \o sep \o JoinWith(sep, Tail(parts))

\* A variant of is_ready that looks at the chunk list only
IsReadyChunksOnly(idx, chunks_) == Len(chunks_) > 0

\* is_ready(): self._index is not None and len(self.text_chunks) > 0
IsReadyOf(idx, chunks_) == idx # None /\ Len(chunks_) > 0

\* faiss.IndexFlatL2(d) after add(matrix): its dimension and stored vectors
IndexFlatL2(d, matrix) == [d |-> d, xb |-> matrix]

IsReady == IsReadyOf(index, text_chunks)

\* The answers IndexFlatL2.search(query_vec, top_k) can give: the 0-based
\* positions of the top_k nearest vectors in ascending distance, ties in any
\* order, padded with -1 when the index holds fewer than top_k vectors.
IndexSearch(idx, qv, k) ==
    LET n == Len(idx.xb)
        orders == {p \in [1..n -> 0..(n - 1)] :
                     /\ \A i, j \in 1..n : i # j => p[i] # p[j]
                     /\ \A i \in 1..(n - 1) :
                          Dist2(idx.xb[p[i] + 1], qv) <= Dist2(idx.xb[p[i + 1] + 1], qv)}
    IN  {[i \in 1..k |-> IF i <= n THEN p[i] ELSE -1] : p \in orders}

\* for idx, distance in zip(indices[0], scores[0]): the hits of lines 82-91.
\* A position beyond the metadata list makes self.metadatas[idx] raise.
RECURSIVE HitsFrom(_, _, _, _, _, _)
HitsFrom(ids, i, idx, qv, chunks_, metas) ==
    IF i > Len(ids) THEN [err |-> "", hits |-> <<>>]
    ELSE IF ids[i] = -1 \/ ids[i] >= Len(chunks_)
         THEN HitsFrom(ids, i + 1, idx, qv, chunks_, metas)
    ELSE IF ids[i] >= Len(metas) THEN [err |-> "IndexError", hits |-> <<>>]
    ELSE LET rest == HitsFrom(ids, i + 1, idx, qv, chunks_, metas)
             hit  == [text |-> chunks_[ids[i] + 1],
                      metadata |-> metas[ids[i] + 1],
                      distance |-> Dist2(idx.xb[ids[i] + 1], qv)]
         IN  IF rest.err # "" THEN rest
             ELSE [err |-> "", hits |-> <<hit>> \o rest.hits]

\* search(query, top_k): the results it can return (or the error it raises)
\* with the service calls it made.
SearchResults(query, k) ==
    IF ~IsReady
    THEN {[err |-> "NotBuilt", hits |-> <<>>, embed_calls |-> 0, index_calls |-> 0]}
    ELSE IF index = None
    THEN {[err |-> "AttributeError", hits |-> <<>>, embed_calls |-> 1, index_calls |-> 0]}
    ELSE LET qv == EmbedBatch(embed, <<query>>)[1]
         IN  {[err |-> r.err, hits |-> r.hits, embed_calls |-> 1, index_calls |-> 1] :
                 r \in {HitsFrom(ids, 1, index, qv, text_chunks, metadatas) :
                           ids \in IndexSearch(index, qv, k)}}

\* Bounds and input sets of the store
MaxTexts == 2

MaxMetas == 2

MaxTopK == 2

MaxUploadTexts == 1

ChunkTexts == { <<"a">>, <<"b">> }

Queries == ChunkTexts \cup { <<>>, <<" ">> }

SeqsUpTo(S, n) == UNION {[1..k -> S] : k \in 0..n}

\* one metadata dictionary with a source, as chunk_text_with_metadata makes
SourceMeta == [source |-> <<"d">>]

MetadataArgs == {None} \cup {[list |-> m] : m \in SeqsUpTo({SourceMeta}, MaxMetas)}

\* The embedders considered: deterministic; the chunk text "b" is embedded
\* as the vector of "a" (two texts sharing one vector), as the vector of the
\* blank queries, or as the vector opposite to "a".
Embedders ==
    {f \in [Queries -> Vectors] :
        f[<<"a">>] = <<1, 0>> /\ f[<<" ">>] = <<0, 1>> /\ f[<<>>] = <<0, 1>>}

\* no build is running
NoBuild == [pc |-> "idle"]

\* The store after construction: VectorStoreManager(embedding_model), or with
\* the text_chunks field given; no index yet.
StoreInit ==
    /\ text_chunks \in {<<>>, << <<"a">> >>}
    /\ metadatas = <<>>
    /\ full_text = <<>>
    /\ index = None
    /\ dimension = None
    /\ embed \in Embedders
    /\ bld = NoBuild
    /\ built = FALSE
    /\ out = [op |-> "none"]

\* The store of a specification that does not use it
StoreIdle ==
    /\ text_chunks = <<>>
    /\ metadatas = <<>>
    /\ full_text = <<>>
    /\ index = None
    /\ dimension = None
    /\ embed \in {[q \in Queries |-> <<1, 0>>]}
    /\ bld = NoBuild
    /\ built = FALSE
    /\ out = [op |-> "none"]

\* The chunker of a specification that does not use it
ChunkIdle ==
    /\ c_text = <<>>
    /\ chunk_size = 0
    /\ chunk_overlap = 0
    /\ normalized = <<>>
    /\ start = 0
    /\ end = 0
    /\ adjusted_end = 0
    /\ chunks = <<>>
    /\ spans = <<>>
    /\ cpc = "idle"

\* build(texts, metadatas), lines 54-71.  embed_ok: whether the embedding
\* service answers every batch (otherwise its exception leaves build before
\* any field is assigned).
Build(texts, metas, embed_ok) ==
    IF RejectsTexts(texts)
    THEN /\ out' = [op |-> "build", texts |-> texts,
                    err |-> "ValueError", embed_calls |-> 0]
         /\ UNCHANGED <<storeVars, built>>
    ELSE IF ~embed_ok
    THEN /\ out' = [op |-> "build", texts |-> texts,
                    err |-> "ExternalServiceFailure", embed_calls |-> 1]
         /\ UNCHANGED <<storeVars, built>>
    ELSE /\ dimension' = [int |-> VectorDim]
         /\ index' = IndexFlatL2(VectorDim, BuildMatrix(embed, texts))
         /\ text_chunks' = texts
         /\ metadatas' = StoredMetadatas(texts, metas)
         /\ full_text' = JoinWith(<<" ">>, texts)
         /\ built' = TRUE
         /\ out' = [op |-> "build", texts |-> texts,
                    err |-> "", embed_calls |-> Cardinality(BatchStarts(texts))]

BuildCall ==
    /\ \E texts \in SeqsUpTo(ChunkTexts, MaxTexts), metas \in MetadataArgs,
          embed_ok \in BOOLEAN : Build(texts, metas, embed_ok)
    /\ UNCHANGED <<chunkVars, embed, bld, postVars>>

\* build, as the upload tab calls it before the generation tabs are used:
\* the chunks of one document with their metadata (app.py lines 90-101)
UploadCall ==
    /\ \E texts \in SeqsUpTo({<<"a">>}, MaxUploadTexts), embed_ok \in BOOLEAN :
          Build(texts, [list |-> [i \in 1..Len(texts) |-> SourceMeta]], embed_ok)
    /\ UNCHANGED <<chunkVars, embed, bld, postVars>>

\* is_ready(), lines 73-74
IsReadyCall ==
    /\ out' = [op |-> "is_ready", value |-> IsReady]
    /\ UNCHANGED <<chunkVars, storeVars, embed, bld, built, postVars>>

\* search(query, top_k), lines 76-92
SearchCall ==
    /\ \E query \in Queries, k \in 1..MaxTopK :
          \E r \in SearchResults(query, k) :
             out' = [op |-> "search", query |-> query, top_k |-> k, err |-> r.err,
                     hits |-> r.hits, embed_calls |-> r.embed_calls,
                     index_calls |-> r.index_calls]
    /\ UNCHANGED <<chunkVars, storeVars, embed, bld, built, postVars>>

----------------------------------------------------------------------------
(* build, statement by statement, beside a reader of the same store *)

\* what a reader of the store can tell apart: the three fields search uses
Triple == [index |-> index, text_chunks |-> text_chunks, metadatas |-> metadatas]

\* the fields as the running build leaves them when it returns
NewTriple ==
    [index |-> IndexFlatL2(VectorDim, BuildMatrix(embed, bld.texts)),
     text_chunks |-> bld.texts,
     metadatas |-> StoredMetadatas(bld.texts, bld.metas)]

\* lines 56-57, and entering the loop of lines 59-62
BuildBegin ==
    /\ bld.pc = "idle"
    /\ \E texts \in SeqsUpTo(ChunkTexts, MaxTexts), metas \in MetadataArgs :
          IF RejectsTexts(texts)
          THEN /\ out' = [op |-> "build", texts |-> texts,
                          err |-> "ValueError", embed_calls |-> 0]
               /\ UNCHANGED bld
          ELSE /\ bld' = [pc |-> "embed", texts |-> texts, metas |-> metas,
                          matrix |-> <<>>, prev |-> Triple, was_ready |-> IsReady]
               /\ out' = [op |-> "none"]
    /\ UNCHANGED <<chunkVars, storeVars, embed, built, postVars>>

\* lines 59-64: the batches are embedded and stacked, or the service fails
BuildEmbed ==
    /\ bld.pc = "embed"
    /\ \E embed_ok \in BOOLEAN :
          IF embed_ok
          THEN /\ bld' = [bld EXCEPT !.pc = "set_dimension",
                                     !.matrix = BuildMatrix(embed, bld.texts)]
               /\ UNCHANGED out
          ELSE /\ bld' = NoBuild
               /\ out' = [op |-> "build", texts |-> bld.texts,
                          err |-> "ExternalServiceFailure", embed_calls |-> 1]
    /\ UNCHANGED <<chunkVars, storeVars, embed, built, postVars>>

\* line 65: self._dimension = matrix.shape[1]
BuildSetDimension ==
    /\ bld.pc = "set_dimension"
    /\ dimension' = [int |-> VectorDim]
    /\ bld' = [bld EXCEPT !.pc = "new_index"]
    /\ UNCHANGED <<chunkVars, text_chunks, metadatas, full_text, index, embed,
                   built, out, postVars>>

\* line 66: self._index = faiss.IndexFlatL2(self._dimension)
BuildNewIndex ==
    /\ bld.pc = "new_index"
    /\ index' = IndexFlatL2(dimension.int, <<>>)
    /\ bld' = [bld EXCEPT !.pc = "add"]
    /\ UNCHANGED <<chunkVars, text_chunks, metadatas, full_text, dimension, embed,
                   built, out, postVars>>

\* line 67: self._index.add(matrix)
BuildIndexAdd ==
    /\ bld.pc = "add"
    /\ index' = IndexFlatL2(index.d, index.xb \o bld.matrix)
    /\ bld' = [bld EXCEPT !.pc = "set_text_chunks"]
    /\ UNCHANGED <<chunkVars, text_chunks, metadatas, full_text, dimension, embed,
                   built, out, postVars>>

\* line 69: self.text_chunks = texts
BuildSetTextChunks ==
    /\ bld.pc = "set_text_chunks"
    /\ text_chunks' = bld.texts
    /\ bld' = [bld EXCEPT !.pc = "set_metadatas"]
    /\ UNCHANGED <<chunkVars, metadatas, full_text, index, dimension, embed,
                   built, out, postVars>>

\* line 70: self.metadatas = metadatas or [{} for _ in texts]
BuildSetMetadatas ==
    /\ bld.pc = "set_metadatas"
    /\ metadatas' = StoredMetadatas(bld.texts, bld.metas)
    /\ bld' = [bld EXCEPT !.pc = "set_full_text"]
    /\ UNCHANGED <<chunkVars, text_chunks, full_text, index, dimension, embed,
                   built, out, postVars>>

\* line 71: self.full_text = " ".join(texts), and build returns
BuildSetFullText ==
    /\ bld.pc = "set_full_text"
    /\ full_text' = JoinWith(<<" ">>, bld.texts)
    /\ built' = TRUE
    /\ bld' = NoBuild
    /\ out' = [op |-> "build", texts |-> bld.texts, err |-> "",
               embed_calls |-> Cardinality(BatchStarts(bld.texts))]
    /\ UNCHANGED <<chunkVars, text_chunks, metadatas, index, dimension, embed,
                   postVars>>

----------------------------------------------------------------------------
(* Answer post-processing, rag.py lines 78-100 *)

UpperToLower ==
    "A" :> "a" @@ "B" :> "b" @@ "C" :> "c" @@ "D" :> "d" @@ "E" :> "e" @@
    "F" :> "f" @@ "G" :> "g" @@ "H" :> "h" @@ "I" :> "i" @@ "J" :> "j" @@
    "K" :> "k" @@ "L" :> "l" @@ "M" :> "m" @@ "N" :> "n" @@ "O" :> "o" @@
    "P" :> "p" @@ "Q" :> "q" @@ "R" :> "r" @@ "S" :> "s" @@ "T" :> "t" @@
    "U" :> "u" @@ "V" :> "v" @@ "W" :> "w" @@ "X" :> "x" @@ "Y" :> "y" @@
    "Z" :> "z"

\* str.lower() of one character, and what (?i) / re.IGNORECASE compares
Lower(c) == IF c \in DOMAIN UpperToLower THEN UpperToLower[c] ELSE c

\* \w: letters, digits and the underscore
IsWord(c) ==
    \/ Lower(c) \in {UpperToLower[u] : u \in DOMAIN UpperToLower}
    \/ c \in {"0", "1", "2", "3", "4", "5", "6", "7", "8", "9", "_"}

\* the lower-case literal lit occurs in t at 1-based position p, ignoring case
MatchAt(t, p, lit) ==
    /\ p >= 1
    /\ p + Len(lit) - 1 <= Len(t)
    /\ \A k \in 1..Len(lit) : Lower(t[p + k - 1]) = lit[k]

\* re.search(lit, t, flags=re.IGNORECASE) for a literal
ContainsCI(t, lit) == \E p \in 1..Len(t) : MatchAt(t, p, lit)

\* \s* from position p: the position of the first character that is not
\* whitespace, Len(t) + 1 if there is none
SkipWS(t, p) ==
    IF \A r \in p..Len(t) : IsWS(t[r]) THEN Max2(p, Len(t) + 1)
    ELSE CHOOSE r \in p..Len(t) : ~IsWS(t[r]) /\ \A j \in p..(r - 1) : IsWS(t[j])

\* (?i)\banswer\s*:\s* matched at position p: the position after the match,
\* 0 if there is no match at p
MarkerEnd(t, p) ==
    LET colon == SkipWS(t, p + 6)
    IN  IF /\ MatchAt(t, p, <<"a", "n", "s", "w", "e", "r">>)
           /\ (p = 1 \/ ~IsWord(t[p - 1]))
           /\ colon <= Len(t)
           /\ t[colon] = ":"
        THEN SkipWS(t, colon + 1)
        ELSE 0

\* A variant that keeps the text after the first marker
AnswerBodyAfterFirst(raw) ==
    LET ends == {MarkerEnd(raw, p) : p \in 1..Len(raw)} \ {0}
    IN  IF ends = {} THEN Strip(raw)
        ELSE Strip(SubSeq(raw, SetMin(ends), Len(raw)))

\* parts = re.split(...); parts[-1].strip() if len(parts) > 1 else raw.strip()
AnswerBody(raw) ==
    LET ends == {MarkerEnd(raw, p) : p \in 1..Len(raw)} \ {0}
    IN  IF ends = {} THEN Strip(raw)
        ELSE Strip(SubSeq(raw, SetMax(ends), Len(raw)))

\* str.splitlines(), for the line break of the model's alphabet
RECURSIVE SplitLines(_)
SplitLines(t) ==
    IF t = <<>> THEN <<>>
    ELSE IF \A i \in 1..Len(t) : t[i] # "\n" THEN <<t>>
    ELSE LET i == CHOOSE k \in 1..Len(t) :
                     t[k] = "\n" /\ \A j \in 1..(k - 1) : t[j] # "\n"
         IN  <<SubSeq(t, 1, i - 1)>> \o SplitLines(SubSeq(t, i + 1, Len(t)))

\* re.match(r"(?i)\s*(context|question)\s*:", line)
LineIsEcho(line) ==
    LET p == SkipWS(line, 1)
    IN  \E w \in {<<"c", "o", "n", "t", "e", "x", "t">>, <<"q", "u", "e", "s", "t", "i", "o", "n">>} :
           /\ MatchAt(line, p, w)
           /\ LET r == SkipWS(line, p + Len(w))
              IN  r <= Len(line) /\ line[r] = ":"

\* EduWeave|AI assistant|Avoid speculation|Keep responses concise
Fragments == {<<"e", "d", "u", "w", "e", "a", "v", "e">>, <<"a", "i", " ", "a", "s", "s", "i", "s", "t", "a", "n", "t">>, <<"a", "v", "o", "i", "d", " ", "s", "p", "e", "c", "u", "l", "a", "t", "i", "o", "n">>,
              <<"k", "e", "e", "p", " ", "r", "e", "s", "p", "o", "n", "s", "e", "s", " ", "c", "o", "n", "c", "i", "s", "e">>}

\* re.search(r"EduWeave|AI assistant|...", line, flags=re.IGNORECASE)
LineHasFragment(line) == \E f \in Fragments : ContainsCI(line, f)

\* cleaned_lines: the lines that are neither an echoed label nor a fragment
KeptLines(body) ==
    LET Keep(line) == ~LineIsEcho(line) /\ ~LineHasFragment(line)
    IN  SelectSeq(SplitLines(body), Keep)

\* cleaned = " ".join(cleaned_lines).strip()
Cleaned(body) == Strip(JoinWith(<<" ">>, KeptLines(body)))

SentenceEnd == {".", "!", "?"}

\* re.split(r"(?<=[.!?])\s+", cleaned)
RECURSIVE SplitSentences(_)
SplitSentences(t) ==
    LET cuts == {p \in 2..Len(t) : IsWS(t[p]) /\ t[p - 1] \in SentenceEnd}
    IN  IF cuts = {} THEN <<t>>
        ELSE LET p == SetMin(cuts)
                 q == SkipWS(t, p)
             IN  <<SubSeq(t, 1, p - 1)>> \o SplitSentences(SubSeq(t, q, Len(t)))

\* sentences[:7]
MaxSentences == 7

\* A variant with no sentence cap
CapNone(sentences) == sentences

\* sentences[:7]
Cap(sentences) == Slice(sentences, 0, MaxSentences)

\* answer = " ".join(sentences[:7]).strip() if sentences else cleaned
Capped(cleaned) ==
    LET sentences == SplitSentences(cleaned)
    IN  IF sentences # <<>> THEN Strip(JoinWith(<<" ">>, Cap(sentences)))
        ELSE cleaned

FallbackAnswer == <<"I", " ", "c", "a", "n", "n", "o", "t", " ", "f", "i", "n", "d", " ", "t", "h", "e", " ", "a", "n", "s", "w", "e", "r", " ", "i", "n", " ", "t", "h", "e", " ", "s", "u", "p", "p", "l", "i", "e", "d", " ", "n", "o", "t", "e", "s", ".">>

ResidualPhrase == <<"i", "f", " ", "t", "h", "e", " ", "a", "n", "s", "w", "e", "r", " ", "i", "s", " ", "m", "i", "s", "s", "i", "n", "g">>

\* A variant that returns the capped text as it is, with no fallback
PostProcessNoFallback(raw) == Capped(Cleaned(AnswerBody(raw)))

\* if not answer or "if the answer is missing" in answer.lower(): fallback
PostProcess(raw) ==
    LET capped == Capped(Cleaned(AnswerBody(raw)))
    IN  IF capped = <<>> \/ ContainsCI(capped, ResidualPhrase)
        THEN FallbackAnswer
        ELSE capped

\* Bounds and input sets of the post-processing
MaxAnswerSentences == 8

Contexts == {<<"c">>, <<"t", "h", "e", " ", "a", "n", "s", "w", "e", "r", ":", " ", "c">>}

Questions == {<<"q", "?">>, <<"W", "h", "a", "t", " ", "i", "s", "\n", "t", "h", "e", " ", "a", "n", "s", "w", "e", "r", "?">>}

SentenceTexts == {<<"T", "h", "e", " ", "d", "e", "r", "i", "v", "a", "t", "i", "v", "e", " ", "i", "s", " ", "2", "x", ".">>, <<"N", "o", "!">>}

Gaps == {<<" ">>, <<" ", " ">>, <<"\n">>}

Leads == {<<>>, <<" ">>, <<"Q", "u", "e", "s", "t", "i", "o", "n", ":", " ">>, <<"E", "d", "u", "W", "e", "a", "v", "e", " ">>, <<"I", "f", " ", "t", "h", "e", " ", "a", "n", "s", "w", "e", "r", " ", "i", "s", " ", "m", "i", "s", "s", "i", "n", "g", ",", " ">>}

Trails == {<<>>, <<" ", "w">>, <<"\n">>}

\* SYSTEM_PROMPT, rag.py lines 22-25, line by line
SystemPromptLines ==
    << <<"Y", "o", "u", " ", "a", "r", "e", " ", "E", "d", "u", "W", "e", "a", "v", "e", ",", " ", "a", "n", " ", "a", "c", "a", "d", "e", "m", "i", "c", " ", "A", "I", " ", "a", "s", "s", "i", "s", "t", "a", "n", "t", ".">>,
       <<"A", "n", "s", "w", "e", "r", " ", "q", "u", "e", "s", "t", "i", "o", "n", "s", " ", "s", "t", "r", "i", "c", "t", "l", "y", " ", "w", "i", "t", "h", " ", "t", "h", "e", " ", "p", "r", "o", "v", "i", "d", "e", "d", " ", "c", "o", "n", "t", "e", "x", "t", ".", " ", "A", "v", "o", "i", "d", " ", "s", "p", "e", "c", "u", "l", "a", "t", "i", "o", "n", ".">>,
       <<"K", "e", "e", "p", " ", "r", "e", "s", "p", "o", "n", "s", "e", "s", " ", "c", "o", "n", "c", "i", "s", "e", " ", "(", "o", "n", "e", " ", "o", "r", " ", "t", "w", "o", " ", "s", "e", "n", "t", "e", "n", "c", "e", "s", ")", " ", "a", "n", "d", " ", "d", "i", "r", "e", "c", "t", "l", "y", " ", "a", "d", "d", "r", "e", "s", "s", " ", "t", "h", "e", " ", "q", "u", "e", "s", "t", "i", "o", "n", ".">>,
       <<"I", "f", " ", "t", "h", "e", " ", "a", "n", "s", "w", "e", "r", " ", "i", "s", " ", "m", "i", "s", "s", "i", "n", "g", ",", " ", "s", "a", "y", " ", "y", "o", "u", " ", "c", "a", "n", "n", "o", "t", " ", "f", "i", "n", "d", " ", "i", "t", " ", "i", "n", " ", "t", "h", "e", " ", "s", "u", "p", "p", "l", "i", "e", "d", " ", "n", "o", "t", "e", "s", ".">> >>

SYSTEM_PROMPT == JoinWith(<<"\n">>, SystemPromptLines)

MaxEchoLines == 2

\* generator outputs made of lines of SYSTEM_PROMPT only: up to MaxEchoLines
\* of them in any order, and the whole prompt
PromptEchoes ==
    {SYSTEM_PROMPT} \cup
    {JoinWith(<<"\n">>, [i \in 1..Len(pick) |-> SystemPromptLines[pick[i]]]) :
        pick \in UNION {[1..n -> 1..Len(SystemPromptLines)] : n \in 1..MaxEchoLines}}

\* k copies of the sentence, gap between two of them
RECURSIVE Sentences(_, _, _)
Sentences(k, sentence, gap) ==
    IF k = 0 THEN <<>>
    ELSE IF k = 1 THEN sentence
    ELSE sentence \o gap \o Sentences(k - 1, sentence, gap)

\* a generator output that echoes the prompt: Context: <c> Question: <q> Answer: <a>
Echoed(c, q, a) == <<"C", "o", "n", "t", "e", "x", "t", ":", " ">> \o c \o <<" ", "Q", "u", "e", "s", "t", "i", "o", "n", ":", " ">> \o q \o <<" ", "A", "n", "s", "w", "e", "r", ":", " ">> \o a

\* The generator's outputs considered: an answer text, bare or after the
\* echoed prompt, and echoes of SYSTEM_PROMPT lines.
PostInit ==
    /\ \/ \E k \in 0..MaxAnswerSentences, sentence \in SentenceTexts, gap \in Gaps,
             lead \in Leads, trail \in Trails, c \in Contexts, q \in Questions,
             echoed \in BOOLEAN :
             LET a == lead \o Sentences(k, sentence, gap) \o trail
             IN  /\ raw_parts = [echoed |-> echoed, c |-> c, q |-> q, a |-> a]
                 /\ raw_answer = IF echoed THEN Echoed(c, q, a) ELSE a
       \/ \E a \in PromptEchoes :
             /\ raw_parts = [echoed |-> FALSE, c |-> <<>>, q |-> <<>>, a |-> a]
             /\ raw_answer = a
    /\ answer = <<>>
    /\ ppc = "raw"

\* The post-processing of a specification that does not use it
PostIdle ==
    /\ raw_answer = <<>>
    /\ raw_parts = [echoed |-> FALSE, c |-> <<>>, q |-> <<>>, a |-> <<>>]
    /\ answer = <<>>
    /\ ppc = "idle"

\* rag.py lines 78-100, from the generator's output to the returned answer
PostProcessStep ==
    /\ ppc = "raw"
    /\ answer' = PostProcess(raw_answer)
    /\ ppc' = "done"
    /\ UNCHANGED <<raw_answer, raw_parts, chunkVars, storeVars, embed, bld, built, out>>

----------------------------------------------------------------------------
(* Configuration (config.py); temperatures in hundredths *)

answer_temperature == 20

summary_temperature == 25

mcq_temperature == 60

max_context_chars == 6000

max_summary_chars == 4500

max_mcq_chars == 5000

\* A variant that falls back to the default only for None
OrDefaultNoneOnly(temperature, default) ==
    IF temperature = None THEN default ELSE temperature.float

\* temperature or <default>: Python's `or` takes the default for None and for
\* every falsy number, that is for 0 and 0.0.
OrDefault(temperature, default) ==
    IF temperature = None THEN default
    ELSE IF temperature.float = 0 THEN default
    ELSE temperature.float

----------------------------------------------------------------------------
(* answer_question, rag.py *)

\* str(i) for a natural number
RECURSIVE Decimal(_)
Decimal(i) ==
    LET digit == <<"0", "1", "2", "3", "4", "5", "6", "7", "8", "9">>[(i % 10) + 1]
    IN  IF i < 10 THEN <<digit>> ELSE Decimal(i \div 10) \o <<digit>>

\* metadata.get("source", f"chunk-{idx}")
SourceLabel(metadata, idx) ==
    IF "source" \in DOMAIN metadata THEN metadata.source
    ELSE <<"c", "h", "u", "n", "k", "-">> \o Decimal(idx)

\* _format_context(chunks): "[<source>] <text>" per hit, a blank line between
FormatContext(hits) ==
    JoinWith(<<"\n", "\n">>,
             [i \in 1..Len(hits) |->
                 <<"[">> \o SourceLabel(hits[i].metadata, i) \o <<"]", " ">> \o hits[i].text])

\* textwrap.shorten(text, width, placeholder=" ...") of a text whose collapsed
\* form fits the width: the whitespace-collapsed text.  (The corpus of this
\* model stays below the width; BaselineFits guards it.)
Shorten(text) == NormalizeWhitespace(text)

BaselineFits == Len(NormalizeWhitespace(full_text)) <= max_context_chars

\* if not context: context = "Context is empty."
ContextOrNote(context) == IF context = <<>> THEN <<"C", "o", "n", "t", "e", "x", "t", " ", "i", "s", " ", "e", "m", "p", "t", "y", ".">> ELSE context

\* Bounds and input sets of the generation calls
TemperatureArgs == {None, [float |-> 0], [float |-> 70]}

AnswerQuestions == {<<>>, <<" ">>, <<"a">>}

\* What the generation service does with one call: it fails, or it answers.
AnswerReplies == {[ok |-> FALSE, text |-> <<>>],
                  [ok |-> TRUE, text |-> <<"A", "n", "s", "w", "e", "r", ":", " ", "T", "h", "e", " ", "d", "e", "r", "i", "v", "a", "t", "i", "v", "e", " ", "i", "s", " ", "2", "x", ".">>]}

\* answer_question(question, vector_store, retrieval_cfg, generation_cfg,
\* use_rag, temperature), lines 37-100.  The store's readiness is the only
\* thing checked before the retrieval (lines 46-47).  has_store: vector_store is not None;
\* k: retrieval_cfg.top_k; reply: what generator.generate does.
AnswerQuestion(question, has_store, use_rag, temperature, k, reply) ==
    LET call == [op |-> "answer", question |-> question, has_store |-> has_store,
                 use_rag |-> use_rag, temperature |-> temperature]
        Failed(e, r) == call @@ [err |-> e, embed_calls |-> r.embed_calls,
                                 index_calls |-> r.index_calls, gen_calls |-> 0]
        none == [embed_calls |-> 0, index_calls |-> 0]
        Generated(hits, context, mode, r) ==
            IF ~reply.ok
            THEN call @@ [err |-> "ExternalServiceFailure",
                          embed_calls |-> r.embed_calls,
                          index_calls |-> r.index_calls, gen_calls |-> 1]
            ELSE call @@ [err |-> "", answer |-> PostProcess(reply.text), sources |-> hits,
                          mode |-> mode, context |-> ContextOrNote(context),
                          gen_temperature |-> OrDefault(temperature, answer_temperature),
                          embed_calls |-> r.embed_calls,
                          index_calls |-> r.index_calls, gen_calls |-> 1]
    IN  IF ~has_store \/ ~IsReady
        THEN out' = Failed("NotReady", none)
        ELSE IF use_rag
        THEN \E r \in SearchResults(question, k) :
                out' = IF r.err # "" THEN Failed(r.err, r)
                       ELSE Generated(r.hits, FormatContext(r.hits), "rag", r)
        ELSE /\ BaselineFits
             /\ out' = Generated(<<>>, Shorten(full_text), "baseline", none)

AnswerCall ==
    /\ \E question \in AnswerQuestions, has_store \in BOOLEAN, use_rag \in BOOLEAN,
          temperature \in TemperatureArgs, k \in 1..MaxTopK,
          reply \in AnswerReplies :
          AnswerQuestion(question, has_store, use_rag, temperature, k, reply)
    /\ UNCHANGED <<chunkVars, storeVars, embed, bld, built, postVars>>

----------------------------------------------------------------------------
(* generate_summary and generate_mcqs, generation.py *)

\* _clean_context(text, limit): re.sub(r"\s+", " ", text or "").strip()[:limit]
CleanContext(text, limit) == Slice(NormalizeWhitespace(text), 0, limit)

\* _chat_with_hf, lines 20-48: the chat completion, and the plain completion
\* when the chat call raises or gives no text.  chat, completion: what the
\* two service calls do.  response: the text of the service before strip().
ChatWithHf(chat, completion) ==
    IF chat.ok /\ chat.text # <<>>
    THEN [err |-> "", text |-> Strip(chat.text), response |-> chat.text,
          gen_calls |-> 1]
    ELSE IF ~completion.ok
    THEN [err |-> "ExternalServiceFailure", text |-> <<>>, response |-> <<>>,
          gen_calls |-> 2]
    ELSE [err |-> "", text |-> Strip(completion.text), response |-> completion.text,
          gen_calls |-> 2]

\* json.loads, for the JSON of arrays, objects, strings without escapes,
\* natural numbers and true / false / null.  A parse gives ok, the position
\* after the value, and the value as a tree tagged by kind.
JsonFail == [ok |-> FALSE, next |-> 0, val |-> [kind |-> "none"]]

JsonDigits == {"0", "1", "2", "3", "4", "5", "6", "7", "8", "9"}

CharAt(t, p) == IF p >= 1 /\ p <= Len(t) THEN t[p] ELSE "<end>"

\* the exact literal lit occurs in t at position p
MatchExact(t, p, lit) ==
    /\ p + Len(lit) - 1 <= Len(t)
    /\ \A k \in 1..Len(lit) : t[p + k - 1] = lit[k]

\* after the opening quote at p: the string's characters up to the closing
\* quote; a backslash or a control character is outside the model's JSON
JsonString(t, p) ==
    LET closes == {q \in (p + 1)..Len(t) : t[q] = "\""}
    IN  IF closes = {} THEN JsonFail
        ELSE LET q == SetMin(closes)
                 body == SubSeq(t, p + 1, q - 1)
             IN  IF \E i \in 1..Len(body) : body[i] \in {"\\", "\n", "\t"}
                 THEN JsonFail
                 ELSE [ok |-> TRUE, next |-> q + 1,
                       val |-> [kind |-> "string", chars |-> body]]

\* a number at p: 0, or a digit run that does not start with 0
JsonNumber(t, p) ==
    LET stop == IF t[p] = "0" THEN p + 1
                ELSE SetMin({q \in (p + 1)..(Len(t) + 1) :
                                CharAt(t, q) \notin JsonDigits})
    IN  [ok |-> TRUE, next |-> stop,
         val |-> [kind |-> "number", digits |-> SubSeq(t, p, stop - 1)]]

\* the interpreter's recursion limit is reached inside json.loads
JsonOverflow == [ok |-> FALSE, next |-> 0, val |-> [kind |-> "overflow"]]

RECURSIVE JsonValue(_, _, _), JsonItems(_, _, _, _), JsonPairs(_, _, _, _)
\* the value that starts at position p; depth: the nesting of arrays and
\* objects that the recursion limit still allows
JsonValue(t, p, depth) ==
    LET c == CharAt(t, p)
    IN  IF c \in {"[", "{"} /\ depth = 0 THEN JsonOverflow
        ELSE IF c = "[" THEN
            LET q == SkipWS(t, p + 1)
            IN  IF CharAt(t, q) = "]"
                THEN [ok |-> TRUE, next |-> q + 1,
                      val |-> [kind |-> "array", items |-> <<>>]]
                ELSE JsonItems(t, q, <<>>, depth - 1)
        ELSE IF c = "{" THEN
            LET q == SkipWS(t, p + 1)
            IN  IF CharAt(t, q) = "}"
                THEN [ok |-> TRUE, next |-> q + 1,
                      val |-> [kind |-> "object", pairs |-> <<>>]]
                ELSE JsonPairs(t, q, <<>>, depth - 1)
        ELSE IF c = "\"" THEN JsonString(t, p)
        ELSE IF c \in JsonDigits THEN JsonNumber(t, p)
        ELSE IF MatchExact(t, p, <<"t", "r", "u", "e">>)
             THEN [ok |-> TRUE, next |-> p + 4, val |-> [kind |-> "true"]]
        ELSE IF MatchExact(t, p, <<"f", "a", "l", "s", "e">>)
             THEN [ok |-> TRUE, next |-> p + 5, val |-> [kind |-> "false"]]
        ELSE IF MatchExact(t, p, <<"n", "u", "l", "l">>)
             THEN [ok |-> TRUE, next |-> p + 4, val |-> [kind |-> "null"]]
        ELSE JsonFail

\* the items of an array from position p on, acc the items before
JsonItems(t, p, acc, depth) ==
    LET v == JsonValue(t, p, depth)
        r == SkipWS(t, v.next)
    IN  IF ~v.ok THEN v
        ELSE IF CharAt(t, r) = ","
             THEN JsonItems(t, SkipWS(t, r + 1), Append(acc, v.val), depth)
        ELSE IF CharAt(t, r) = "]"
             THEN [ok |-> TRUE, next |-> r + 1,
                   val |-> [kind |-> "array", items |-> Append(acc, v.val)]]
        ELSE JsonFail

\* the "key": value pairs of an object from position p on
JsonPairs(t, p, acc, depth) ==
    LET k == IF CharAt(t, p) = "\"" THEN JsonString(t, p) ELSE JsonFail
        colon == SkipWS(t, k.next)
        v == JsonValue(t, SkipWS(t, colon + 1), depth)
        r == SkipWS(t, v.next)
        pair == [key |-> k.val, value |-> v.val]
    IN  IF ~k.ok THEN JsonFail
        ELSE IF CharAt(t, colon) # ":" THEN JsonFail
        ELSE IF ~v.ok THEN v
        ELSE IF CharAt(t, r) = ","
             THEN JsonPairs(t, SkipWS(t, r + 1), Append(acc, pair), depth)
        ELSE IF CharAt(t, r) = "}"
             THEN [ok |-> TRUE, next |-> r + 1,
                   val |-> [kind |-> "object", pairs |-> Append(acc, pair)]]
        ELSE JsonFail

\* json.loads(raw_output): the value, the JSONDecodeError, or the
\* RecursionError of a nesting deeper than the recursion limit allows
JsonLoads(t, depth) ==
    LET v == JsonValue(t, SkipWS(t, 1), depth)
    IN  IF v.ok /\ SkipWS(t, v.next) > Len(t) THEN v
        ELSE IF v.val.kind = "overflow" THEN v
        ELSE JsonFail

\* Input sets of the generation entry points
CorpusTexts == {<<>>, <<" ", "\n">>, <<"a", " ", " ", "b">>}

SummaryReplies == {[ok |-> FALSE, text |-> <<>>],
                   [ok |-> TRUE, text |-> <<>>],
                   [ok |-> TRUE, text |-> <<" ", "N", "o", "t", "e", "s", ".">>]}

McqReplies == {[ok |-> FALSE, text |-> <<>>],
               [ok |-> TRUE, text |-> <<"[", "{", "\"", "q", "u", "e", "s", "t", "i", "o", "n", "\"", ":", " ", "\"", "q", "\"", ",", " ", "\"", "a", "n", "s", "w", "e", "r", "\"", ":", " ", "\"", "A", "\"", "}", "]">>],
               [ok |-> TRUE, text |-> <<"{", "\"", "q", "u", "e", "s", "t", "i", "o", "n", "s", "\"", ":", " ", "[", "]", "}">>],
               [ok |-> TRUE, text |-> <<"S", "u", "r", "e", ":", " ", "[", "1", ",", " ", "2">>],
               [ok |-> TRUE, text |-> <<"[", "[", "[", "1", "]", "]", "]">>]}

CompletionReplies == {[ok |-> FALSE, text |-> <<>>],
                      [ok |-> TRUE, text |-> <<"[", "]", "\n">>]}

NumQuestions == {3}

\* The nesting of arrays and objects that the interpreter's recursion limit
\* still allows when json.loads is called (the limit less the frames of the
\* callers), on the scale of the replies above
StackLeft == {2, 3}

\* generate_summary(corpus_text, config, temperature), lines 56-81
GenerateSummary(corpus_text, temperature, chat, completion) ==
    LET call == [op |-> "summary", corpus_text |-> corpus_text,
                 temperature |-> temperature]
        context == CleanContext(corpus_text, max_summary_chars)
        r == ChatWithHf(chat, completion)
    IN  IF context = <<>>
        THEN out' = call @@ [err |-> "ValueError", gen_calls |-> 0]
        ELSE IF r.err # ""
        THEN out' = call @@ [err |-> r.err, gen_calls |-> r.gen_calls]
        ELSE out' = call @@ [err |-> "", text |-> r.text, gen_calls |-> r.gen_calls,
                             gen_temperature |->
                                 OrDefault(temperature, summary_temperature)]

SummaryCall ==
    /\ \E corpus_text \in CorpusTexts, temperature \in TemperatureArgs,
          chat \in SummaryReplies, completion \in CompletionReplies :
          GenerateSummary(corpus_text, temperature, chat, completion)
    /\ UNCHANGED <<chunkVars, storeVars, embed, bld, built, postVars>>

\* generate_mcqs(corpus_text, num_questions, config, temperature), lines
\* 84-126.  Only json.JSONDecodeError is caught (line 123).
GenerateMcqs(corpus_text, num_questions, temperature, chat, completion, depth) ==
    LET call == [op |-> "mcqs", corpus_text |-> corpus_text,
                 temperature |-> temperature]
        context == CleanContext(corpus_text, max_mcq_chars)
        r == ChatWithHf(chat, completion)
        parsed == JsonLoads(r.text, depth)
    IN  IF context = <<>>
        THEN out' = call @@ [err |-> "ValueError", gen_calls |-> 0]
        ELSE IF r.err # ""
        THEN out' = call @@ [err |-> r.err, gen_calls |-> r.gen_calls]
        ELSE IF parsed.val.kind = "overflow"
        THEN out' = call @@ [err |-> "RecursionError", response |-> r.response,
                             gen_calls |-> r.gen_calls]
        ELSE out' = call @@ [err |-> "", raw_output |-> r.text,
                             response |-> r.response,
                             questions |-> IF parsed.ok /\ parsed.val.kind = "array"
                                           THEN parsed.val.items ELSE <<>>,
                             gen_calls |-> r.gen_calls,
                             gen_temperature |->
                                 OrDefault(temperature, mcq_temperature)]

McqsCall ==
    /\ \E corpus_text \in CorpusTexts, num_questions \in NumQuestions,
          temperature \in TemperatureArgs, chat \in McqReplies,
          completion \in CompletionReplies, depth \in StackLeft :
          GenerateMcqs(corpus_text, num_questions, temperature, chat, completion,
                       depth)
    /\ UNCHANGED <<chunkVars, storeVars, embed, bld, built, postVars>>

----------------------------------------------------------------------------
(* Specifications *)

\* The store under any sequence of build, is_ready and search calls
Next == BuildCall \/ IsReadyCall \/ SearchCall

Init == ChunkIdle /\ StoreInit /\ PostIdle

Spec == Init /\ [][Next]_vars

\* The generation entry points over a store that the upload tab builds
NextGen == UploadCall \/ IsReadyCall \/ SearchCall \/ AnswerCall \/ SummaryCall \/ McqsCall

SpecGen == Init /\ [][NextGen]_vars

\* A thread that builds, statement by statement, beside a thread that reads
NextConc ==
    \/ BuildBegin \/ BuildEmbed \/ BuildSetDimension \/ BuildNewIndex
    \/ BuildIndexAdd \/ BuildSetTextChunks \/ BuildSetMetadatas
    \/ BuildSetFullText \/ IsReadyCall \/ SearchCall

SpecConc == Init /\ [][NextConc]_vars

InitChunk == ChunkInit /\ StoreIdle /\ PostIdle

NextChunk == ChunkEnter \/ ChunkIterate

SpecChunk == InitChunk /\ [][NextChunk]_vars

InitPost == ChunkIdle /\ StoreIdle /\ PostInit

NextPost == PostProcessStep

SpecPost == InitPost /\ [][NextPost]_vars

----------------------------------------------------------------------------
(* Claims about chunk_text, checked under SpecChunk *)

\* C1: chunk_text terminates: an iteration that does not leave the loop moves
\* the cursor forward (the loop exits when the new start would not progress
\* past the previous start).
C1_LoopProgresses ==
    [][(cpc = "loop" /\ cpc' = "loop") => start' > start]_vars

\* C2: every emitted chunk is non-empty and at most the effective chunk_size
\* long, and the boundary adjustment never moves the cut past the window edge.
C2_ChunkBounds ==
    /\ \A i \in 1..Len(chunks) :
          chunks[i] # <<>> /\ Len(chunks[i]) <= ClampSize(chunk_size)
    /\ adjusted_end <= end

\* a run that emitted a full-size chunk and one cut short at a separator
C2_Witness ==
    /\ cpc = "loop"
    /\ adjusted_end < end
    /\ \E i \in 1..Len(chunks) : Len(chunks[i]) = chunk_size
    /\ \E i \in 1..Len(chunks) : Len(chunks[i]) < chunk_size

\* C3: a non-empty normalized text shorter than the effective chunk_size
\* comes back as exactly one chunk, the whole normalized text.
C3_ShortTextOneChunk ==
    (cpc = "done" /\ normalized # <<>> /\ Len(normalized) < chunk_size)
        => chunks = <<normalized>>

\* the index in the window of start st of the last occurrence of the k-th
\* separator, or -1
LastOccurrence(st, k) ==
    RFind(Slice(normalized, st, Min2(st + chunk_size, Len(normalized))),
          separators[k])

\* the separators whose last occurrence lies at or after 0.6 * chunk_size
AtOccurrence(st) ==
    {k \in 1..Len(separators) :
        /\ separators[k] # <<>>
        /\ LastOccurrence(st, k) # -1
        /\ 5 * LastOccurrence(st, k) >= 3 * chunk_size}

\* the separators for which the end of the stripped separator at its last
\* occurrence lies at or after 0.6 * chunk_size
AfterSeparator(st) ==
    {k \in 1..Len(separators) :
        /\ separators[k] # <<>>
        /\ LastOccurrence(st, k) # -1
        /\ 5 * (LastOccurrence(st, k) + Len(Strip(separators[k]))) >= 3 * chunk_size}

\* C13 as stated: the first separator in priority order whose last occurrence
\* in the window lies at or after 0.6 * chunk_size determines the cut (at the
\* occurrence, or just after the separator's visible part); with no such
\* separator the cut is the window edge.
C13_CutAtOccurrence ==
    [][cpc = "loop"
          => IF AtOccurrence(start) = {} THEN adjusted_end' = end'
             ELSE LET k == SetMin(AtOccurrence(start))
                      p == start + LastOccurrence(start, k)
                  IN  adjusted_end' \in {p, p + Len(Strip(separators[k]))}]_vars

\* C13, amended: the threshold is tested on, and the cut made at, the end of
\* the stripped separator: start + idx + len(sep.strip()).
C13_CutAfterSeparator ==
    [][cpc = "loop"
          => IF AfterSeparator(start) = {} THEN adjusted_end' = end'
             ELSE LET k == SetMin(AfterSeparator(start))
                  IN  adjusted_end' = start + LastOccurrence(start, k)
                                        + Len(Strip(separators[k]))]_vars

\* a first chunk cut just after a period that sits one character below the
\* threshold, with a later space in the window
C13_Witness ==
    /\ Len(chunks) = 1
    /\ adjusted_end < end
    /\ 5 * adjusted_end = 3 * chunk_size
    /\ normalized[adjusted_end] = "."
    /\ \E p \in (adjusted_end + 2)..end : normalized[p] = " "

\* the iterations whose slice, stripped, is one of the returned chunks
Emitted ==
    {i \in 1..Len(spans) :
        \E j \in 1..Len(chunks) :
            chunks[j] = Strip(Slice(normalized, spans[i].start, spans[i].adjusted_end))}

\* the 0-based positions of the normalized text inside the slice of an
\* emitted iteration (a non-whitespace character there survives strip())
CoveredPositions ==
    UNION {spans[i].start..(spans[i].adjusted_end - 1) : i \in Emitted}

\* C15: in a run of chunk_text that returns, the first window starts at 0,
\* every later window starts at or before the previous cut and not before
\* the previous window, the last cut is the end of the normalized text, and
\* every non-whitespace character of the normalized text is in a chunk.
C15_ChunksCoverText ==
    /\ \A i \in 1..Len(spans) :
          /\ spans[i].start <= spans[i].adjusted_end
          /\ i = 1 => spans[i].start = 0
          /\ i > 1 => spans[i].start <= spans[i - 1].adjusted_end
    /\ (cpc = "done" /\ normalized # <<>>)
          => /\ spans[Len(spans)].adjusted_end = Len(normalized)
             /\ \A i \in 2..Len(spans) : spans[i - 1].start <= spans[i].start
             /\ LET covered == CoveredPositions
                IN  \A p \in 0..(Len(normalized) - 1) :
                       ~IsWS(normalized[p + 1]) => p \in covered

\* a returned run of three chunks that overlap
C15_Witness ==
    /\ cpc = "done"
    /\ Len(chunks) >= 3
    /\ Len(spans) = Len(chunks)
    /\ spans[2].start < spans[1].adjusted_end
    /\ spans[3].start < spans[2].adjusted_end

----------------------------------------------------------------------------
(* Claims about VectorStoreManager, checked under Spec *)

\* C4: after any sequence of build calls, whatever the metadatas argument,
\* text_chunks, metadatas and the index hold the same number of entries.
C4_ParallelLengths ==
    built => /\ Len(text_chunks) = Len(metadatas)
             /\ index # None
             /\ Len(metadatas) = Len(index.xb)

\* C7: build with an empty list of texts raises the validation error, makes no
\* embedding call and leaves index, dimension, text_chunks, metadatas and
\* full_text as they were, so the store is ready after it iff it was before.
C7_EmptyBuildRejected ==
    [][(out'.op = "build" /\ out'.texts = <<>>)
          => /\ out'.err = "ValueError"
             /\ out'.embed_calls = 0
             /\ UNCHANGED storeVars
             /\ IsReady' = IsReady]_vars

\* a built, ready store that has just rejected build([])
C7_Witness ==
    /\ built
    /\ IsReady
    /\ out.op = "build"
    /\ out.texts = <<>>
    /\ out.err = "ValueError"

\* the hits of a result list are in ascending order of distance
Ascending(hits) ==
    \A i \in 1..Len(hits) : \A j \in i..Len(hits) :
        hits[i].distance <= hits[j].distance

\* C8: on a built store a search for a stored chunk's own text with
\* top_k >= 1 returns at most top_k hits in ascending order of distance, one
\* of them the chunk itself at the smallest distance of the list.
C8_SelfRetrieval ==
    (/\ built
     /\ out.op = "search"
     /\ out.top_k >= 1
     /\ \E i \in 1..Len(text_chunks) : text_chunks[i] = out.query)
        => /\ out.err = ""
           /\ Len(out.hits) <= out.top_k
           /\ Ascending(out.hits)
           /\ \E i \in 1..Len(out.hits) :
                 /\ out.hits[i].text = out.query
                 /\ \A j \in 1..Len(out.hits) :
                       out.hits[i].distance <= out.hits[j].distance

----------------------------------------------------------------------------
(* Claims about a build beside a reader, checked under SpecConc *)

\* C5: a search or is_ready that runs while a build is running on a store
\* that was ready finds either the triple (index, text_chunks, metadatas) of
\* before the build or the triple the build leaves, never a mix of the two.
C5_AtomicRebuild ==
    (bld.pc # "idle" /\ bld.was_ready /\ out.op \in {"search", "is_ready"})
        => Triple \in {bld.prev, NewTriple}

----------------------------------------------------------------------------
(* Claims about the entry points, checked under SpecGen *)

\* C6: is_ready() is true exactly when an index exists and a chunk is stored;
\* while no build has succeeded, search raises the not-built error and
\* answer_question the not-ready error, with no embedding, index or
\* generation call made.
C6_NotBuiltFailsFast ==
    /\ out.op = "is_ready"
          => (out.value <=> (index # None /\ Len(text_chunks) > 0))
    /\ (~built /\ out.op = "search")
          => /\ out.err = "NotBuilt"
             /\ out.embed_calls = 0
             /\ out.index_calls = 0
    /\ (~built /\ out.op = "answer")
          => /\ out.err = "NotReady"
             /\ out.embed_calls = 0
             /\ out.index_calls = 0
             /\ out.gen_calls = 0

\* a search on a store that was constructed with chunks but never built
C6_Witness ==
    /\ ~built
    /\ text_chunks # <<>>
    /\ out.op = "search"
    /\ out.err = "NotBuilt"

\* C9: answer_question with a blank question on a ready store, and
\* generate_summary / generate_mcqs with a blank corpus text, raise the
\* validation error before any embedding or generation call.
C9_BlankInputRejected ==
    /\ (out.op = "answer" /\ out.has_store /\ IsReady /\ Strip(out.question) = <<>>)
          => /\ out.err = "ValueError"
             /\ out.embed_calls = 0
             /\ out.gen_calls = 0
    /\ (out.op \in {"summary", "mcqs"} /\ Strip(out.corpus_text) = <<>>)
          => /\ out.err = "ValueError"
             /\ out.gen_calls = 0

\* C12: generate_mcqs does not fail whatever the generation service
\* answers: it returns the answer untouched as the raw string, with the
\* parsed list when the answer is a JSON array and the empty list otherwise.
C12_McqsShapeTolerant ==
    (out.op = "mcqs" /\ out.err \notin {"ValueError", "ExternalServiceFailure"})
        => /\ out.err = ""
           /\ out.raw_output = out.response
           /\ LET v == JsonLoads(out.response, Len(out.response) + 1)
              IN  out.questions = IF v.ok /\ v.val.kind = "array"
                                  THEN v.val.items ELSE <<>>

\* the configured default temperature of an entry point
DefaultTemperature(op) ==
    IF op = "answer" THEN answer_temperature
    ELSE IF op = "summary" THEN summary_temperature
    ELSE mcq_temperature

\* C14: the temperature handed to the generation call is the caller's value
\* whenever the caller passes one (0 included), and the entry point's
\* configured default only when the caller passes None.
C14_ExplicitTemperatureUsed ==
    (out.op \in {"answer", "summary", "mcqs"} /\ "gen_temperature" \in DOMAIN out)
        => out.gen_temperature = IF out.temperature = None
                                 THEN DefaultTemperature(out.op)
                                 ELSE out.temperature.float

----------------------------------------------------------------------------
(* Claims about the answer post-processing, checked under SpecPost *)

\* the text holds an "answer:" marker
HasMarker(a) == \E p \in 1..Len(a) : MarkerEnd(a, p) # 0

\* a line of the text starts with a "context:" or "question:" label
HasLabelLine(a) ==
    \E i \in 1..Len(SplitLines(a)) : LineIsEcho(SplitLines(a)[i])

\* the text holds a fragment of SYSTEM_PROMPT that the filter looks for
HasPromptFragment(a) ==
    \E f \in Fragments \cup {ResidualPhrase} : ContainsCI(a, f)

NumSentences(a) ==
    IF Strip(a) = <<>> THEN 0 ELSE Len(SplitSentences(Strip(a)))

\* the <a> of an echoed output that the claim is about
EchoedPlainAnswer ==
    /\ ppc = "done"
    /\ raw_parts.echoed
    /\ NumSentences(raw_parts.a) <= MaxSentences
    /\ ~HasMarker(raw_parts.a)
    /\ ~HasLabelLine(raw_parts.a)
    /\ ~HasPromptFragment(raw_parts.a)

\* a non-empty single line without leading or trailing whitespace in which
\* every sentence end is followed by exactly one space
OneParagraph(a) ==
    /\ a # <<>>
    /\ ~IsWS(a[1])
    /\ ~IsWS(a[Len(a)])
    /\ \A i \in 1..Len(a) : a[i] # "\n"
    /\ \A p \in 2..Len(a) :
          (IsWS(a[p]) /\ a[p - 1] \in SentenceEnd)
             => (a[p] = " " /\ ~IsWS(a[p + 1]))

\* C10 as stated: for a raw output "Context: <c> Question: <q> Answer: <a>"
\* whose <a> has at most 7 sentences and no marker or prompt fragment, the
\* returned answer is exactly <a>.
C10_EchoedAnswerExact ==
    EchoedPlainAnswer => answer = raw_parts.a

\* C10, amended: the same, for an <a> that is one paragraph (non-empty, one
\* line, no outer whitespace, one space after each sentence end): the text
\* after the last "answer:" marker comes back exactly.
C10_EchoedParagraphExact ==
    (EchoedPlainAnswer /\ OneParagraph(raw_parts.a)) => answer = raw_parts.a

\* seven sentences after an echoed prompt whose context holds a marker too
C10_Witness ==
    /\ EchoedPlainAnswer
    /\ OneParagraph(raw_parts.a)
    /\ NumSentences(raw_parts.a) = MaxSentences
    /\ HasMarker(raw_parts.c)
    /\ answer = raw_parts.a

\* every line of the text is a line of SYSTEM_PROMPT
OnlyPromptLines(t) ==
    /\ t # <<>>
    /\ \A i \in 1..Len(SplitLines(t)) :
          \E j \in 1..Len(SystemPromptLines) : SplitLines(t)[i] = SystemPromptLines[j]

\* the text after marker extraction, echo stripping and the sentence cap
Filtered(raw) == Capped(Cleaned(AnswerBody(raw)))

\* C11: the returned answer is never empty and never holds the residual
\* phrase "if the answer is missing"; it is the fixed fallback whenever the
\* filtered text is empty or holds the phrase, and whenever the raw output is
\* made of SYSTEM_PROMPT lines only.
C11_FallbackPolicy ==
    ppc = "done"
        => /\ answer # <<>>
           /\ ~ContainsCI(answer, ResidualPhrase)
           /\ (Filtered(raw_answer) = <<>> \/ ContainsCI(Filtered(raw_answer), ResidualPhrase))
                 => answer = FallbackAnswer
           /\ OnlyPromptLines(raw_answer) => answer = FallbackAnswer

\* the whole SYSTEM_PROMPT echoed back and answered by the fallback
C11_Witness ==
    /\ ppc = "done"
    /\ raw_answer = SYSTEM_PROMPT
    /\ answer = FallbackAnswer

====
